---- MODULE Spec2Model ----
(***************************************************************************)
(* The meeting relevance pipeline of main.py: fetch goals and Fireflies    *)
(* integrations, build relations, fetch the meetings of every relation,    *)
(* then drive every meeting through PENDING -> classify -> COMPLETED ->    *)
(* notify.  tools/connect.py and tools/fireflies.py are the two boundary   *)
(* calls.                                                                  *)
(***************************************************************************)
EXTENDS Integers, Sequences, FiniteSets, TLC

\* ------------------------------------------------------------------ bounds
\* Largest number of integration rows (= relations) of a run.
MaxRel == 2
\* Largest length of a generated language-model response (in characters).
MaxLen == 3
\* Largest number of goal rows get_relations is applied to on its own.
MaxGoals == 2

\* ------------------------------------------------------------- data domains
\* The transcript ids the meeting source knows.
TranscriptIds == {"t1", "t2"}

\* title of a transcript, as the transcripts query returns it
TitleOf(t) == IF t = "t1" THEN "Revenue sync" ELSE "Standup"

\* short_summary of a transcript, as the summary query returns it
ShortSummaryOf(t) == IF t = "t1" THEN "s1" ELSE "s2"

\* The rows of the goals table with type = 'objectives' (main.py:35-46).
GoalRows ==
    << [name |-> "Grow revenue", pulse_id |-> 1, organization_id |-> 1, description |-> "d1"],
       [name |-> "Hire", pulse_id |-> 2, organization_id |-> 1, description |-> "d2"],
       [name |-> "Cut churn", pulse_id |-> 1, organization_id |-> 1, description |-> "d3"] >>

\* The first n rows of the integrations table with type = 'fireflies'
\* (main.py:49-60): one credential per pulse.
IntegrationRows(n) ==
    [k \in 1..n |-> [pulse_id |-> k, user_id |-> k, api_key |-> k]]

\* ------------------------------------------------------------ get_relations
EmptyDict == [x \in {} |-> << >>]

\* Variant: the list of a pulse_id is replaced by the new goal, not appended to.
GoalsDictStepOverwrite(d, goal) ==
    LET p == goal.pulse_id
        entry == [name |-> goal.name, description |-> goal.description]
    IN  [x \in (DOMAIN d) \cup {p} |-> IF x = p THEN << entry >> ELSE d[x]]

\* One iteration of the loop over goals (main.py:73-80).
GoalsDictStep(d, goal) ==
    LET p == goal.pulse_id
        entry == [name |-> goal.name, description |-> goal.description]
    IN  IF p \in DOMAIN d
          THEN [d EXCEPT ![p] = Append(@, entry)]
          ELSE [x \in (DOMAIN d) \cup {p} |-> IF x = p THEN << entry >> ELSE d[x]]

RECURSIVE GoalsDict(_, _)
\* goals_dict after the first k goals (main.py:72-80).
GoalsDict(gs, k) ==
    IF k = 0 THEN EmptyDict ELSE GoalsDictStep(GoalsDict(gs, k - 1), gs[k])

\* goals_dict.get(pulse_id, []) (main.py:89)
DictGet(d, p) == IF p \in DOMAIN d THEN d[p] ELSE << >>

\* get_relations(goals, integrations) (main.py:69-92)
get_relations(gs, ints) ==
    LET d == GoalsDict(gs, Len(gs))
    IN  [k \in 1..Len(ints) |->
            [user_id |-> ints[k].user_id,
             pulse_id |-> ints[k].pulse_id,
             api_key |-> ints[k].api_key,
             goals |-> DictGet(d, ints[k].pulse_id)]]

\* -------------------------------------------------------- request_fireflies
\* What the HTTP layer can do with one POST: fail in transport, answer with a
\* status code, answer 200 with a body that is not JSON.
HttpFailures ==
    { [net |-> "error", status |-> 0, json |-> FALSE],
      [net |-> "ok", status |-> 500, json |-> FALSE],
      [net |-> "ok", status |-> 401, json |-> TRUE],
      [net |-> "ok", status |-> 200, json |-> FALSE] }

HttpOk == [net |-> "ok", status |-> 200, json |-> TRUE]

\* request_fireflies (tools/fireflies.py:4-18): TRUE when the call raises.
request_fireflies_raises(http) ==
    \/ http.net = "error"
    \/ http.status # 200
    \/ ~http.json

\* ---------------------------------------------- check_meeting_goal_relation
\* A response of the language model is a sequence of characters.
UpperCase == << "A", "B", "C", "D", "E", "F", "G", "H", "I", "J", "K", "L", "M",
                "N", "O", "P", "Q", "R", "S", "T", "U", "V", "W", "X", "Y", "Z" >>

LowerCase == << "a", "b", "c", "d", "e", "f", "g", "h", "i", "j", "k", "l", "m",
                "n", "o", "p", "q", "r", "s", "t", "u", "v", "w", "x", "y", "z" >>

\* str.lower() on one character
LowerChar(c) ==
    IF \E k \in 1..Len(UpperCase) : UpperCase[k] = c
      THEN LowerCase[CHOOSE k \in 1..Len(UpperCase) : UpperCase[k] = c]
      ELSE c

\* response.lower() (main.py:190)
Lower(s) == [k \in 1..Len(s) |-> LowerChar(s[k])]

RECURSIVE FindFrom(_, _, _)
\* Python's `sub in s`, scanning s from position k on (main.py:190).
FindFrom(s, sub, k) ==
    IF k + Len(sub) - 1 > Len(s) THEN FALSE
    ELSE IF SubSeq(s, k, k + Len(sub) - 1) = sub THEN TRUE
    ELSE FindFrom(s, sub, k + 1)

Yes == << "y", "e", "s" >>

\* Variant: the response is searched as it came, without lower().
ParseResponseCaseSensitive(text) == FindFrom(text, Yes, 1)

\* is_related = 'yes' in response.lower() (main.py:190)
ParseResponse(text) == FindFrom(Lower(text), Yes, 1)

\* An outcome of chain.invoke (main.py:185-188): it raises, or returns a text.
LLMRaises == [raises |-> TRUE, text |-> << >>]

LLMReturns(text) == [raises |-> FALSE, text |-> text]

\* Variant: no except clause, an exception of chain.invoke leaves the function.
check_meeting_goal_relation_no_except(llm) ==
    IF llm.raises
      THEN [raised |-> TRUE, value |-> FALSE]
      ELSE [raised |-> FALSE, value |-> ParseResponse(llm.text)]

\* check_meeting_goal_relation (main.py:166-195): what the caller gets.
check_meeting_goal_relation(llm) ==
    IF llm.raises
      THEN [raised |-> FALSE, value |-> FALSE]
      ELSE [raised |-> FALSE, value |-> ParseResponse(llm.text)]

\* The responses the specification names, and a few more.
RespYes == << "Y", "e", "s" >>

RespYesBecause == << "y", "e", "s", ",", " ", "b", "e", "c", "a", "u", "s", "e", ".", ".", "." >>

RespYESBang == << "Y", "E", "S", "!" >>

RespNo == << "N", "o" >>

RespEmpty == << >>

RespMaybe == << "m", "a", "y", "b", "e" >>

NamedResponses == {RespYes, RespYesBecause, RespYESBang, RespNo, RespEmpty, RespMaybe}

\* The characters generated responses are built from.
Alphabet == {"y", "Y", "e", "E", "s", "S", "n", "o", " "}

RECURSIVE SeqsUpTo(_, _)
SeqsUpTo(S, n) ==
    IF n = 0 THEN {<< >>}
    ELSE LET shorter == SeqsUpTo(S, n - 1)
         IN  shorter \cup {Append(q, c) : q \in shorter, c \in S}

GeneratedResponses == SeqsUpTo(Alphabet, MaxLen)

LLMOutcomes == {LLMRaises} \cup {LLMReturns(t) : t \in NamedResponses \cup GeneratedResponses}

\* ------------------------------------------------------------ store_meeting
Statuses == {"PENDING", "COMPLETED"}

\* What the database does with one upsert: it commits; execute or commit
\* raises and the rollback works; execute raises and the rollback raises too
\* (the connection is gone).
DbOutcomes == {"ok", "error", "conn_lost"}

NewRow(m, status) ==
    [transcript_id |-> m.transcript_id, title |-> m.title, user_id |-> m.user_id,
     pulse_id |-> m.pulse_id, summary |-> m.short_summary, status |-> status]

\* Variant: ON CONFLICT (transcript_id) DO NOTHING.
UpsertDoNothing(tbl, m, status) ==
    IF \E row \in tbl : row.transcript_id = m.transcript_id
      THEN tbl
      ELSE tbl \cup {NewRow(m, status)}

\* Variant: ON CONFLICT (transcript_id) DO UPDATE of every column.
UpsertReplace(tbl, m, status) ==
    {row \in tbl : row.transcript_id # m.transcript_id} \cup {NewRow(m, status)}

\* Variant: a plain INSERT into a table without the unique key.
UpsertInsertOnly(tbl, m, status) == tbl \cup {NewRow(m, status)}

\* INSERT ... ON CONFLICT (transcript_id) DO UPDATE SET status, summary
\* (main.py:201-206)
Upsert(tbl, m, status) ==
    IF \E row \in tbl : row.transcript_id = m.transcript_id
      THEN { IF row.transcript_id = m.transcript_id
               THEN [row EXCEPT !.status = status, !.summary = m.short_summary]
               ELSE row : row \in tbl }
      ELSE tbl \cup {NewRow(m, status)}

\* The except branch of store_meeting (main.py:224-226): the error is logged,
\* the transaction rolled back; the call raises only when the rollback does.
StoreExcept(db) ==
    IF db = "conn_lost" THEN [raised |-> TRUE, ret |-> "raise"]
                        ELSE [raised |-> FALSE, ret |-> "None"]

\* store_meeting (main.py:198-226): the table afterwards and what the caller
\* gets.
store_meeting(tbl, m, status, db) ==
    IF db = "ok"
      THEN [table |-> Upsert(tbl, m, status), raised |-> FALSE, ret |-> "None"]
      ELSE [table |-> tbl, raised |-> StoreExcept(db).raised, ret |-> StoreExcept(db).ret]

\* ------------------------------------------------------------------- state
VARIABLES
    pc,              \* where main() is
    exc,             \* the exception main() re-raised ("" when none)
    OPENAI_API_KEY,  \* the environment variable
    goals,           \* main's goals
    integrations,    \* main's integrations
    relations,       \* main's relations
    meetings,        \* fetch_fireflies_meetings' meetings, then main's
    r,               \* fetch: index of the relation of the outer loop
    fpc,             \* fetch: the request to send next
    user,            \* fetch: users[0] of the current relation
    transcripts,     \* fetch: the transcripts of the current relation
    j,               \* fetch: index of the transcript of the inner loop
    requested,       \* fetch: the relations whose first request was sent
    listed,          \* fetch: <<relation, transcript>> the transcripts query listed
    failed,          \* fetch: the relations a request raised for
    served,          \* fetch: <<relation, transcript>> answered with a summary
    noSummary,       \* fetch: <<relation, transcript>> answered without one
    i,               \* main: index of the meeting of the loop
    is_related,      \* main: is_related
    table,           \* the committed rows of the meetings table
    hist,            \* the calls main made for meeting i, with their results
    cl_in,           \* classifier alone: the outcome of chain.invoke
    cl_out,          \* classifier alone: what the caller got
    st_call,         \* store alone: the last call
    st_ret,          \* store alone: what the caller of the last call got
    st_last,         \* store alone: per transcript, the last committed write
    store_read       \* what became of the read of step 1 ("" before it)

vars == << pc, exc, OPENAI_API_KEY, goals, integrations, relations, meetings,
           r, fpc, user, transcripts, j, requested, listed, failed, served, noSummary,
           i, is_related, table, hist,
           cl_in, cl_out, st_call, st_ret, st_last, store_read >>

fetchVars == << r, fpc, user, transcripts, j, requested, listed, failed, served, noSummary >>

loopVars == << i, is_related, hist >>

aloneVars == << cl_in, cl_out, st_call, st_ret, st_last >>

NoUser == [name |-> "", user_id |-> 0]

NoCall == [transcript_id |-> "", origin |-> 0, summary |-> "", status |-> "", db |-> ""]

NoWrite == [written |-> FALSE, status |-> "", summary |-> "", title |-> "",
            user_id |-> 0, pulse_id |-> 0]

mainOnlyVars == << exc, OPENAI_API_KEY, goals, integrations, relations, meetings,
                   r, fpc, user, transcripts, j, requested, listed, failed, served, noSummary,
                   i, is_related, hist >>

\* A row a previous run of the pipeline left behind.
PriorRow == [transcript_id |-> "t1", title |-> "Revenue kickoff", user_id |-> 109,
             pulse_id |-> 9, summary |-> "s0", status |-> "COMPLETED"]

InitTables == { {}, {PriorRow} }

InitCommon ==
    /\ exc = ""
    /\ goals = << >>
    /\ integrations = << >>
    /\ relations = << >>
    /\ meetings = << >>
    /\ r = 0
    /\ fpc = ""
    /\ user = NoUser
    /\ transcripts = << >>
    /\ j = 0
    /\ requested = {}
    /\ listed = {}
    /\ failed = {}
    /\ served = {}
    /\ noSummary = {}
    /\ i = 0
    /\ is_related = FALSE
    /\ hist = << >>
    /\ cl_in = LLMRaises
    /\ cl_out = [called |-> FALSE, raised |-> FALSE, value |-> FALSE]
    /\ st_call = NoCall
    /\ st_ret = ""
    /\ st_last = [t \in TranscriptIds |-> NoWrite]
    /\ store_read = ""

Init ==
    /\ pc = "fetch_goals"
    /\ OPENAI_API_KEY \in {"", "sk"}
    /\ table \in InitTables
    /\ InitCommon

\* main's except clause (main.py:283-285): log and re-raise.
Raise(e) ==
    /\ pc' = "raised"
    /\ exc' = e

\* ------------------------------------------------- fetch_goals_and_integrations
\* What the store does with the two reads: it answers; create_connection
\* raises; a query raises psycopg2.Error.
StoreReadOutcomes == {"ok", "connect_error", "query_error"}

\* Variant: the except clause logs the error and returns the empty lists.
fetch_goals_and_integrations_swallows(db) == ""

\* fetch_goals_and_integrations (main.py:20-66) and create_connection
\* (tools/connect.py:3-15): the exception that leaves the function, "" when
\* it returns.
fetch_goals_and_integrations_raises(db) ==
    CASE db = "connect_error" -> "Exception: Unable to connect to the database"
      [] db = "query_error" -> "psycopg2.Error"
      [] OTHER -> ""

\* step 1 of main (main.py:239-241)
MainFetchGoals ==
    /\ pc = "fetch_goals"
    /\ \E db \in StoreReadOutcomes :
         /\ store_read' = db
         /\ LET e == fetch_goals_and_integrations_raises(db)
            IN  IF e # ""
                  THEN /\ Raise(e)
                       /\ UNCHANGED << goals, integrations >>
                  ELSE /\ \E n \in 0..MaxRel :
                            /\ goals' = GoalRows
                            /\ integrations' = IntegrationRows(n)
                       /\ pc' = "get_relations"
                       /\ exc' = exc
    /\ UNCHANGED << OPENAI_API_KEY, relations, meetings, fetchVars, loopVars, table, aloneVars >>

\* step 2 of main (main.py:243-245), and the entry of
\* fetch_fireflies_meetings (main.py:97-99)
MainGetRelations ==
    /\ pc = "get_relations"
    /\ relations' = get_relations(goals, integrations)
    /\ pc' = "fetch_meetings"
    /\ meetings' = << >>
    /\ r' = 1
    /\ fpc' = "users"
    /\ UNCHANGED << exc, OPENAI_API_KEY, goals, integrations, user, transcripts, j,
                    requested, listed, failed, served, noSummary, loopVars, table, aloneVars, store_read >>

\* --------------------------------------------------- fetch_fireflies_meetings
\* The user the meeting source knows for an API key.
FirefliesUser(key) == [name |-> "owner", user_id |-> 100 + key]

\* Bodies of a 200 answer to the users query.
UsersBodies(key) ==
    { [data |-> FALSE, users |-> << >>],
      [data |-> TRUE, users |-> << >>],
      [data |-> TRUE, users |-> << FirefliesUser(key) >>] }

Transcript(t) == [id |-> t, title |-> TitleOf(t)]

\* The transcript lists of an answer: each transcript at most once.
TranscriptLists ==
    { << >> } \cup { << Transcript(t) >> : t \in TranscriptIds }
      \cup UNION { { << Transcript(t), Transcript(u) >> : u \in TranscriptIds \ {t} } :
                   t \in TranscriptIds }

\* Bodies of a 200 answer to the transcripts query.
TranscriptsBodies ==
    { [data |-> FALSE, transcripts |-> << >>] }
      \cup { [data |-> TRUE, transcripts |-> ts] : ts \in TranscriptLists }

\* Bodies of a 200 answer to the summary query of transcript t: no data, no
\* transcript, no summary, or a summary.
SummaryBodies(t) ==
    { [data |-> FALSE, transcript |-> FALSE, summary |-> FALSE, short_summary |-> ""],
      [data |-> TRUE, transcript |-> FALSE, summary |-> FALSE, short_summary |-> ""],
      [data |-> TRUE, transcript |-> TRUE, summary |-> FALSE, short_summary |-> ""],
      [data |-> TRUE, transcript |-> TRUE, summary |-> TRUE, short_summary |-> ShortSummaryOf(t)] }

\* main.py:105
UsersMissing(body) == ~body.data \/ body.users = << >>

\* main.py:119
TranscriptsMissing(body) == ~body.data \/ body.transcripts = << >>

\* Variant: the summary object itself is not looked at.
SummaryMissingLax(body) == ~body.data \/ ~body.transcript

\* main.py:141-143
SummaryMissing(body) == ~body.data \/ ~body.transcript \/ ~body.summary

\* The answer carries a summary object.
HasSummary(body) == body.data /\ body.transcript /\ body.summary

\* the dict appended to meetings (main.py:149-157)
MeetingDict(transcript, usr, relation, short_summary) ==
    [transcript_id |-> transcript.id,
     title |-> transcript.title,
     user_id |-> usr.user_id,
     user_name |-> usr.name,
     pulse_id |-> relation.pulse_id,
     short_summary |-> short_summary,
     goals |-> relation.goals]

\* Variant: no except clause, the error leaves fetch_fireflies_meetings.
FetchExceptReraise(rr) == [raised |-> TRUE, r |-> rr]

\* Variant: `break` for `continue`, the error ends the loop over relations.
FetchExceptBreak(rr) == [raised |-> FALSE, r |-> Len(relations) + 1]

\* The except clause of the loop over relations (main.py:159-161): the error
\* is logged and the loop continues with the relation after rr.
FetchExcept(rr) == [raised |-> FALSE, r |-> rr + 1]

\* `continue` of the outer loop: on to relation next
ContinueRelation(next) ==
    /\ r' = next
    /\ fpc' = "users"
    /\ user' = NoUser
    /\ transcripts' = << >>
    /\ j' = 0

\* A request of relation r raised (main.py:159-161).
FetchError ==
    /\ failed' = failed \cup {r}
    /\ IF FetchExcept(r).raised
         THEN /\ Raise("Exception: Failed to request fireflies")
              /\ UNCHANGED << r, fpc, user, transcripts, j >>
         ELSE /\ ContinueRelation(FetchExcept(r).r)
              /\ UNCHANGED << pc, exc >>

\* the users request of relation r (main.py:101-109)
FetchUsers ==
    /\ pc = "fetch_meetings"
    /\ fpc = "users"
    /\ r <= Len(relations)
    /\ requested' = requested \cup {r}
    /\ \E http \in HttpFailures \cup {HttpOk} :
         IF request_fireflies_raises(http)
           THEN FetchError
           ELSE /\ \E body \in UsersBodies(relations[r].api_key) :
                     IF UsersMissing(body)
                       THEN ContinueRelation(r + 1)
                       ELSE /\ user' = body.users[1]
                            /\ fpc' = "transcripts"
                            /\ UNCHANGED << r, transcripts, j >>
                /\ UNCHANGED << pc, exc, failed >>
    /\ UNCHANGED << OPENAI_API_KEY, goals, integrations, relations, meetings,
                    listed, served, noSummary, loopVars, table, aloneVars, store_read >>

\* the transcripts request of relation r (main.py:111-121)
FetchTranscripts ==
    /\ pc = "fetch_meetings"
    /\ fpc = "transcripts"
    /\ \E http \in HttpFailures \cup {HttpOk} :
         IF request_fireflies_raises(http)
           THEN /\ FetchError
                /\ listed' = listed
           ELSE /\ \E body \in TranscriptsBodies :
                     IF TranscriptsMissing(body)
                       THEN /\ ContinueRelation(r + 1)
                            /\ listed' = listed
                       ELSE /\ transcripts' = body.transcripts
                            /\ listed' = listed \cup
                                 {<< r, body.transcripts[k].id >> : k \in 1..Len(body.transcripts)}
                            /\ j' = 1
                            /\ fpc' = "summary"
                            /\ UNCHANGED << r, user >>
                /\ UNCHANGED << pc, exc, failed >>
    /\ UNCHANGED << OPENAI_API_KEY, goals, integrations, relations, meetings,
                    requested, served, noSummary, loopVars, table, aloneVars, store_read >>

\* the inner loop moves to the next transcript, or the outer loop to the
\* next relation (main.py:123, main.py:99)
NextTranscript ==
    IF j < Len(transcripts)
      THEN /\ j' = j + 1
           /\ UNCHANGED << r, fpc, user, transcripts >>
      ELSE ContinueRelation(r + 1)

\* Variant: the meetings of a relation are kept only when all its requests
\* succeeded.
MeetingsAfterErrorDropped(ms, rr) ==
    LET Keep(m) == m.pulse_id # relations[rr].pulse_id
    IN  SelectSeq(ms, Keep)

\* The meeting list after a request of relation rr raised (main.py:159-161):
\* the except clause leaves the list, with what relation rr appended, alone.
MeetingsAfterError(ms, rr) == ms

\* the summary request of transcript j of relation r (main.py:123-157)
FetchSummary ==
    /\ pc = "fetch_meetings"
    /\ fpc = "summary"
    /\ \E http \in HttpFailures \cup {HttpOk} :
         IF request_fireflies_raises(http)
           THEN /\ FetchError
                /\ meetings' = MeetingsAfterError(meetings, r)
                /\ UNCHANGED << served, noSummary >>
           ELSE /\ \E body \in SummaryBodies(transcripts[j].id) :
                     /\ IF SummaryMissing(body)
                          THEN meetings' = meetings
                          ELSE meetings' = Append(meetings,
                                   MeetingDict(transcripts[j], user, relations[r],
                                               body.short_summary))
                     /\ IF HasSummary(body)
                          THEN /\ served' = served \cup {<< r, transcripts[j].id >>}
                               /\ noSummary' = noSummary
                          ELSE /\ noSummary' = noSummary \cup {<< r, transcripts[j].id >>}
                               /\ served' = served
                /\ NextTranscript
                /\ UNCHANGED << pc, exc, failed >>
    /\ UNCHANGED << OPENAI_API_KEY, goals, integrations, relations,
                    requested, listed, loopVars, table, aloneVars, store_read >>

\* fetch_fireflies_meetings returns (main.py:163, main.py:248-249)
FetchReturn ==
    /\ pc = "fetch_meetings"
    /\ fpc = "users"
    /\ r > Len(relations)
    /\ pc' = "init_llm"
    /\ UNCHANGED << exc, OPENAI_API_KEY, goals, integrations, relations, meetings,
                    fetchVars, loopVars, table, aloneVars, store_read >>

\* ------------------------------------------------------------ main, steps 4-5
FetchLocalsGone ==
    /\ r' = 0
    /\ fpc' = ""
    /\ user' = NoUser
    /\ transcripts' = << >>
    /\ j' = 0
    /\ requested' = {}
    /\ listed' = {}
    /\ failed' = {}
    /\ served' = {}
    /\ noSummary' = {}

\* main.py:253
KeyMissing(key) == key = ""

\* step 4 of main (main.py:251-256)
MainInitLLM ==
    /\ pc = "init_llm"
    /\ IF KeyMissing(OPENAI_API_KEY)
         THEN Raise("ValueError: OPENAI_API_KEY environment variable not set")
         ELSE /\ pc' = "connect"
              /\ exc' = exc
    /\ FetchLocalsGone
    /\ UNCHANGED << OPENAI_API_KEY, goals, integrations, relations, meetings,
                    loopVars, table, aloneVars, store_read >>

\* create_connection (tools/connect.py:3-15): TRUE when it raises.
create_connection_raises(db) == db = "connect_error"

\* step 5 of main (main.py:258-264)
MainConnect ==
    /\ pc = "connect"
    /\ \E db \in {"ok", "connect_error"} :
         IF create_connection_raises(db)
           THEN /\ Raise("Exception: Unable to connect to the database")
                /\ i' = i
           ELSE /\ pc' = "for"
                /\ i' = 0
                /\ exc' = exc
    /\ UNCHANGED << OPENAI_API_KEY, goals, integrations, relations, meetings,
                    fetchVars, is_related, hist, table, aloneVars, store_read >>

\* ------------------------------------------------------- main, the meeting loop
\* Variant: a meeting judged not related is left without the COMPLETED write.
LoopNextSkipUnrelated(p, related) ==
    CASE p = "store_pending" -> "check"
      [] p = "check" -> IF related THEN "store_completed" ELSE "for"
      [] p = "store_completed" -> IF related THEN "notify" ELSE "for"
      [] p = "notify" -> "for"

\* Variant: the COMPLETED write comes before the classification.
LoopNextCompletedFirst(p, related) ==
    CASE p = "store_pending" -> "store_completed"
      [] p = "store_completed" -> "check"
      [] p = "check" -> IF related THEN "notify" ELSE "for"
      [] p = "notify" -> "for"

\* Variant: the notification is sent before the COMPLETED write.
LoopNextNotifyFirst(p, related) ==
    CASE p = "store_pending" -> "check"
      [] p = "check" -> IF related THEN "notify" ELSE "store_completed"
      [] p = "notify" -> "store_completed"
      [] p = "store_completed" -> "for"

\* The statement main runs after statement p of the loop body
\* (main.py:267-278); "for" is the loop head.
LoopNext(p, related) ==
    CASE p = "store_pending" -> "check"
      [] p = "check" -> "store_completed"
      [] p = "store_completed" -> IF related THEN "notify" ELSE "for"
      [] p = "notify" -> "for"

\* Control moves to statement target; h is the history of meeting i so far.
Goto(target, h) ==
    /\ i' = i
    /\ pc' = target
    /\ hist' = h

\* the loop head (main.py:267): the next meeting, or past the loop
MainFor ==
    /\ pc = "for"
    /\ IF i < Len(meetings)
         THEN /\ i' = i + 1
              /\ pc' = "store_pending"
              /\ hist' = << >>
         ELSE /\ pc' = "close"
              /\ UNCHANGED << i, hist >>
    /\ UNCHANGED << exc, OPENAI_API_KEY, goals, integrations, relations, meetings,
                    fetchVars, is_related, table, aloneVars, store_read >>

Event(op, arg, res) == [op |-> op, arg |-> arg, res |-> res]

\* store_meeting(meeting, status, conn) called by main at statement p
\* (main.py:269, main.py:275)
MainStore(p, status) ==
    /\ pc = p
    /\ \E db \in DbOutcomes :
         LET res == store_meeting(table, meetings[i], status, db)
             h == Append(hist, Event("store_meeting", status, db))
         IN  /\ table' = res.table
             /\ IF res.raised
                  THEN /\ Raise("InterfaceError: connection already closed")
                       /\ i' = i
                       /\ hist' = h
                  ELSE /\ Goto(LoopNext(p, is_related), h)
                       /\ exc' = exc
    /\ UNCHANGED << OPENAI_API_KEY, goals, integrations, relations, meetings,
                    fetchVars, is_related, aloneVars, store_read >>

\* main.py:269
MainStorePending == MainStore("store_pending", "PENDING")

\* main.py:275
MainStoreCompleted == MainStore("store_completed", "COMPLETED")

\* The outcomes of chain.invoke the pipeline is run with.
MainLLMOutcomes == {LLMRaises} \cup {LLMReturns(t) : t \in NamedResponses}

\* main.py:272
MainCheck ==
    /\ pc = "check"
    /\ \E llm \in MainLLMOutcomes :
         LET res == check_meeting_goal_relation(llm)
             h == Append(hist, Event("check",
                                     IF llm.raises THEN "llm_raised" ELSE "llm_returned",
                                     IF res.raised THEN "raise"
                                     ELSE IF res.value THEN "True" ELSE "False"))
         IN  IF res.raised
               THEN /\ Raise("Exception: chain.invoke")
                    /\ i' = i
                    /\ hist' = h
                    /\ is_related' = is_related
               ELSE /\ is_related' = res.value
                    /\ Goto(LoopNext("check", res.value), h)
                    /\ exc' = exc
    /\ UNCHANGED << OPENAI_API_KEY, goals, integrations, relations, meetings,
                    fetchVars, table, aloneVars, store_read >>

\* send_notification_summary (main.py:229-234): TRUE when a notification is
\* emitted.
send_notification_summary(related) == related

\* What becomes of the record handed to logger.info (main.py:233): written, or
\* lost in a handler.
LogOutcomes == {"emitted", "handler_error"}

\* Variant: a record lost in a handler raises out of logger.info.
NotifyRaisesOnError(log) == log = "handler_error"

\* logger.info returns normally whatever its handlers do (main.py:233): the
\* logging module does not pass a handler's error to the caller.
NotifyRaises(log) == FALSE

\* main.py:277-278
MainNotify ==
    /\ pc = "notify"
    /\ \E log \in LogOutcomes :
         LET h == Append(hist, Event("notify", "",
                                     IF ~send_notification_summary(is_related) THEN ""
                                     ELSE IF log = "emitted" THEN "sent" ELSE "failed"))
         IN  IF NotifyRaises(log)
               THEN /\ Raise("Exception: logger.info")
                    /\ i' = i
                    /\ hist' = h
               ELSE /\ Goto(LoopNext("notify", is_related), h)
                    /\ exc' = exc
    /\ UNCHANGED << OPENAI_API_KEY, goals, integrations, relations, meetings,
                    fetchVars, is_related, table, aloneVars, store_read >>

\* main.py:280-281
MainClose ==
    /\ pc = "close"
    /\ pc' = "done"
    /\ UNCHANGED << exc, OPENAI_API_KEY, goals, integrations, relations, meetings,
                    fetchVars, loopVars, table, aloneVars, store_read >>

Next ==
    \/ MainFetchGoals
    \/ MainGetRelations
    \/ FetchUsers
    \/ FetchTranscripts
    \/ FetchSummary
    \/ FetchReturn
    \/ MainInitLLM
    \/ MainConnect
    \/ MainFor
    \/ MainStorePending
    \/ MainCheck
    \/ MainStoreCompleted
    \/ MainNotify
    \/ MainClose

Spec == Init /\ [][Next]_vars

\* main() runs to its end: no statement waits for anything but its own turn.
FairSpec == Spec /\ WF_vars(Next)

\* no store_meeting call made for meeting i so far has failed
NoUpsertFailure ==
    \A k \in 1..Len(hist) : hist[k].op = "store_meeting" => hist[k].res = "ok"

\* a step of main() in a run where every upsert commits
NextNoUpsertFailure == Next /\ NoUpsertFailure'

\* The runs of main() in which no upsert fails.
SpecNoUpsertFailure == Init /\ [][NextNoUpsertFailure]_vars

\* ------------------------------------------- check_meeting_goal_relation alone
InitClassify ==
    /\ pc = "classify"
    /\ OPENAI_API_KEY = "sk"
    /\ table = {}
    /\ InitCommon

\* One call of check_meeting_goal_relation, whatever chain.invoke does.
Classify ==
    /\ pc = "classify"
    /\ ~cl_out.called
    /\ \E llm \in LLMOutcomes :
         LET res == check_meeting_goal_relation(llm)
         IN  /\ cl_in' = llm
             /\ cl_out' = [called |-> TRUE, raised |-> res.raised, value |-> res.value]
    /\ UNCHANGED << pc, mainOnlyVars, table, st_call, st_ret, st_last, store_read >>

SpecClassify == InitClassify /\ [][Classify]_vars

\* ---------------------------------------------------------- store_meeting alone
StoreOrigins == {1, 2}

StoreSummaries == {"s1", "s2"}

\* A meeting dict as fetch_fireflies_meetings builds it for transcript t, found
\* under credential o with summary s.
StoreMeeting(t, o, s) ==
    MeetingDict([id |-> t, title |-> IF o = 1 THEN "A" ELSE "B"],
                FirefliesUser(o),
                [pulse_id |-> o, goals |-> << >>],
                s)

InitStore ==
    /\ pc = "store"
    /\ OPENAI_API_KEY = "sk"
    /\ table = {}
    /\ InitCommon

\* One call of store_meeting, with any meeting, status and database outcome.
StoreCall ==
    /\ pc = "store"
    /\ \E t \in TranscriptIds, o \in StoreOrigins, s \in StoreSummaries,
          status \in Statuses, db \in DbOutcomes :
         LET m == StoreMeeting(t, o, s)
             res == store_meeting(table, m, status, db)
         IN  /\ table' = res.table
             /\ st_call' = [transcript_id |-> t, origin |-> o, summary |-> s,
                            status |-> status, db |-> db]
             /\ st_ret' = res.ret
             /\ st_last' =
                  IF db = "ok"
                    THEN [st_last EXCEPT ![t] =
                            IF @.written
                              THEN [@ EXCEPT !.status = status, !.summary = s]
                              ELSE [written |-> TRUE, status |-> status, summary |-> s,
                                    title |-> m.title, user_id |-> m.user_id,
                                    pulse_id |-> m.pulse_id]]
                    ELSE st_last
    /\ UNCHANGED << pc, mainOnlyVars, cl_in, cl_out, store_read >>

SpecStore == InitStore /\ [][StoreCall]_vars

\* ======================================================================
\* Properties
\* ======================================================================
EventName(e) == IF e.op = "store_meeting" THEN e.arg ELSE e.op

\* the calls of store_meeting(meeting, "COMPLETED") in the history of meeting i
CompletedEvents ==
    {k \in 1..Len(hist) : hist[k].op = "store_meeting" /\ hist[k].arg = "COMPLETED"}

HasCompletedRow(t) ==
    \E row \in table : row.transcript_id = t /\ row.status = "COMPLETED"

\* the meeting list holds transcript t as found under relation rr
InMeetings(rr, t) ==
    \E k \in 1..Len(meetings) :
        /\ meetings[k].transcript_id = t
        /\ meetings[k].pulse_id = relations[rr].pulse_id

RowsOf(t) == {row \in table : row.transcript_id = t}

\* ----------------------------------------------------------------------- C1
\* Every meeting of the loop has had its COMPLETED write called when the loop
\* moves on, and a COMPLETED write that succeeded left a COMPLETED row.
C1_Inv ==
    /\ (pc = "for" /\ i >= 1) =>
          /\ CompletedEvents # {}
          /\ \A k \in CompletedEvents :
                hist[k].res = "ok" => HasCompletedRow(meetings[i].transcript_id)
    /\ (pc \in {"close", "done"}) => i = Len(meetings)

\* C1 (amended): once main() is in the meeting loop, every fetched meeting
\* gets its store_meeting(meeting, COMPLETED) call whatever the classification
\* returned or raised internally, unless store_meeting itself raised first;
\* the COMPLETED row is committed when that upsert succeeds; the run ends.
C1_CompletedWritten ==
    /\ [](C1_Inv)
    /\ <>(pc \in {"done", "raised"})

\* C1 witness: the language-model call raised, and the meeting's COMPLETED
\* row is committed all the same.
C1_Witness ==
    /\ pc = "for"
    /\ i >= 1
    /\ \E k \in 1..Len(hist) : hist[k].op = "check" /\ hist[k].arg = "llm_raised"
    /\ \E k \in CompletedEvents : hist[k].res = "ok"
    /\ HasCompletedRow(meetings[i].transcript_id)

\* C1 as stated: at the end of main() every fetched meeting has a committed
\* COMPLETED row.
C1_Original ==
    pc = "done" =>
       \A k \in 1..Len(meetings) : HasCompletedRow(meetings[k].transcript_id)

\* ----------------------------------------------------------------------- C2
ExpectedOrder == << "PENDING", "check", "COMPLETED", "notify" >>

\* C2: the calls main makes for one meeting come in the order
\* store_meeting(PENDING), check_meeting_goal_relation,
\* store_meeting(COMPLETED), then the notification.
C2_Order ==
    \A k \in 1..Len(hist) :
        /\ k <= Len(ExpectedOrder)
        /\ EventName(hist[k]) = ExpectedOrder[k]

\* C2 witness: the second meeting of a run went through all three calls.
C2_Witness ==
    /\ pc = "for"
    /\ i >= 2
    /\ Len(hist) >= 3

\* ----------------------------------------------------------------------- C3
\* C3: after any sequence of store_meeting calls the table holds exactly one
\* row for every transcript_id a call committed, none for the others, and the
\* row carries the status and summary of the last committed call.
C3_OneRowLastWrite ==
    \A t \in TranscriptIds :
        IF st_last[t].written
          THEN /\ Cardinality(RowsOf(t)) = 1
               /\ \A row \in RowsOf(t) :
                     /\ row.status = st_last[t].status
                     /\ row.summary = st_last[t].summary
          ELSE RowsOf(t) = {}

\* C3 witness: a committed call updated the row of a transcript_id that a
\* call for another credential had inserted, beside the row of another
\* transcript.
C3_Witness ==
    /\ st_call.db = "ok"
    /\ st_call.status = "PENDING"
    /\ \E row \in table :
          /\ row.transcript_id = st_call.transcript_id
          /\ row.pulse_id # st_call.origin
          /\ row.status = "PENDING"
          /\ row.summary = st_call.summary
    /\ Cardinality(table) = 2

\* ----------------------------------------------------------------------- C4
LoopPcs == {"store_pending", "check", "store_completed", "notify"}

C5_RolledBackAndReported ==
    [][st_call'.db \in {"error", "conn_lost"} =>
          /\ table' = table
          /\ st_ret' = "raise"]_vars

\* ----------------------------------------------------------------------- C6
\* C6 as stated: after a failed upsert nothing more is done for that meeting
\* in the run (no classification, no COMPLETED write, no notification).
C6_FailedMeetingStops ==
    \A k \in 1..Len(hist) :
        (hist[k].op = "store_meeting" /\ hist[k].res # "ok") => k = Len(hist)

\* ----------------------------------------------------------------------- C7
ExcConnect == "Exception: Unable to connect to the database"

ExcQuery == "psycopg2.Error"

ExcKey == "ValueError: OPENAI_API_KEY environment variable not set"

ExcRollback == "InterfaceError: connection already closed"

\* C7 (amended): main() is aborted only by a store failure during the initial
\* fetch, a missing OPENAI_API_KEY, a failure of the second create_connection,
\* or an upsert failure whose rollback raises too; a meeting-source failure, a
\* classification failure and a rolled-back upsert failure abort nothing:
\* every relation is requested and every meeting of the list is processed.
C7_AbortCauses ==
    /\ pc = "raised" =>
          /\ exc \in {ExcConnect, ExcQuery, ExcKey, ExcRollback}
          /\ exc = ExcQuery => goals = << >>
          /\ exc = ExcConnect => (goals = << >> \/ i = 0)
          /\ exc = ExcKey => (KeyMissing(OPENAI_API_KEY) /\ i = 0)
          /\ exc = ExcRollback => (hist # << >> /\ hist[Len(hist)].res = "conn_lost")
          /\ failed = {}
          /\ hist # << >> => hist[Len(hist)].res \notin {"error", "True", "False"}
    /\ pc = "init_llm" => requested = 1..Len(relations)
    /\ pc \in {"close", "done"} => i = Len(meetings)

\* C7 witness: a run of two meetings or more reached its end although, for
\* its last meeting, the language-model call raised and an upsert failed and
\* was rolled back.
C7_Witness ==
    /\ pc = "done"
    /\ Len(meetings) >= 2
    /\ \E k \in 1..Len(hist) : hist[k].arg = "llm_raised"
    /\ \E k \in 1..Len(hist) : hist[k].res = "error"

\* C7 as stated: main() is aborted only during the initial fetch of goals
\* and integrations.
C7_Original == pc = "raised" => goals = << >>

\* ----------------------------------------------------------------------- C8
\* C8: fetch_fireflies_meetings does not raise; when it returns, every
\* relation has been requested, and every listed transcript of a relation no
\* request failed for was asked for its summary and is in the list when it
\* has one.
C8_FetchContinues ==
    /\ (pc = "raised" => exc # "Exception: Failed to request fireflies")
    /\ pc = "init_llm" =>
          /\ requested = 1..Len(relations)
          /\ \A p \in listed :
                p[1] \notin failed =>
                   /\ p \in served \cup noSummary
                   /\ p \in served => InMeetings(p[1], p[2])

\* C8 witness: the first relation failed and a meeting of the second is in
\* the returned list.
C8_Witness ==
    /\ pc = "init_llm"
    /\ 1 \in failed
    /\ \E p \in served : p[1] = 2 /\ 2 \notin failed /\ InMeetings(2, p[2])

\* ----------------------------------------------------------------------- C9
\* "yes" stands somewhere in the text, whatever the case of its letters
ContainsYes(text) ==
    \E k \in 1..Len(text) :
        /\ k + 2 <= Len(text)
        /\ text[k] \in {"y", "Y"}
        /\ text[k + 1] \in {"e", "E"}
        /\ text[k + 2] \in {"s", "S"}

\* C9: check_meeting_goal_relation never raises; when chain.invoke raises, and
\* when the response is empty or has no "yes" in it, the caller gets False.
C9_NeverRaises ==
    cl_out.called =>
       /\ ~cl_out.raised
       /\ cl_out.value \in BOOLEAN
       /\ cl_in.raises => ~cl_out.value
       /\ (~cl_in.raises /\ ~ContainsYes(cl_in.text)) => ~cl_out.value

\* C9 witness: a call during which chain.invoke raised.
C9_Witness ==
    /\ cl_out.called
    /\ cl_in.raises
    /\ ~cl_out.value

\* ---------------------------------------------------------------------- C10
\* C10: for every response, check_meeting_goal_relation returns True iff the
\* response holds "yes" in any case; "Yes", "yes, because..." and "YES!" give
\* True, and "No", "" and "maybe" give False.
C10_ParseRule ==
    (cl_out.called /\ ~cl_in.raises) =>
       /\ cl_out.value = ContainsYes(cl_in.text)
       /\ cl_in.text \in {RespYes, RespYesBecause, RespYESBang} => cl_out.value
       /\ cl_in.text \in {RespNo, RespEmpty, RespMaybe} => ~cl_out.value

\* C10 witness: the response "YES!" was judged True.
C10_Witness ==
    /\ cl_out.called
    /\ ~cl_in.raises
    /\ cl_in.text = RespYESBang
    /\ cl_out.value
\* ---------------------------------------------------------- get_relations alone
\* The goal rows get_relations is applied to: two names under two pulses.
RelGoals ==
    { [name |-> n, pulse_id |-> p, organization_id |-> 1,
       description |-> IF n = "g1" THEN "d1" ELSE "d2"] :
      n \in {"g1", "g2"}, p \in {1, 2} }

\* The integration rows: pulse 3 has no goal.
RelIntegrations ==
    { [pulse_id |-> p, user_id |-> u, api_key |-> 50 + u] : p \in {1, 2, 3}, u \in {7, 8} }

InitRelations ==
    /\ pc = "relations"
    /\ OPENAI_API_KEY = "sk"
    /\ table = {}
    /\ exc = ""
    /\ goals \in SeqsUpTo(RelGoals, MaxGoals)
    /\ integrations \in SeqsUpTo(RelIntegrations, MaxRel)
    /\ relations = << >>
    /\ meetings = << >>
    /\ r = 0
    /\ fpc = ""
    /\ user = NoUser
    /\ transcripts = << >>
    /\ j = 0
    /\ requested = {}
    /\ listed = {}
    /\ failed = {}
    /\ served = {}
    /\ noSummary = {}
    /\ i = 0
    /\ is_related = FALSE
    /\ hist = << >>
    /\ cl_in = LLMRaises
    /\ cl_out = [called |-> FALSE, raised |-> FALSE, value |-> FALSE]
    /\ st_call = NoCall
    /\ st_ret = ""
    /\ st_last = [t \in TranscriptIds |-> NoWrite]
    /\ store_read = ""

\* One call of get_relations(goals, integrations) (main.py:244).
BuildRelations ==
    /\ pc = "relations"
    /\ relations' = get_relations(goals, integrations)
    /\ pc' = "relations_done"
    /\ UNCHANGED << exc, OPENAI_API_KEY, goals, integrations, meetings, fetchVars,
                    loopVars, table, aloneVars, store_read >>

SpecRelations == InitRelations /\ [][BuildRelations]_vars

\* ---------------------------------------------------------------------- C11
RECURSIVE MatchingGoals(_, _)
\* the goals of gs with pulse_id p, as name/description pairs, in the order
\* of gs
MatchingGoals(gs, p) ==
    IF gs = << >> THEN << >>
    ELSE LET rest == MatchingGoals(Tail(gs), p)
         IN  IF Head(gs).pulse_id = p
               THEN << [name |-> Head(gs).name, description |-> Head(gs).description] >> \o rest
               ELSE rest

\* C11: get_relations(G, I) has one relation per integration, in order, with
\* that integration's pulse_id, user_id and api_key, and with the goals of G
\* of that pulse_id as name/description pairs in the order of G (the empty
\* list when none matches).
C11_Relations ==
    pc = "relations_done" =>
       /\ Len(relations) = Len(integrations)
       /\ \A k \in 1..Len(integrations) :
             /\ relations[k].pulse_id = integrations[k].pulse_id
             /\ relations[k].user_id = integrations[k].user_id
             /\ relations[k].api_key = integrations[k].api_key
             /\ relations[k].goals = MatchingGoals(goals, integrations[k].pulse_id)

\* C11 witness: a relation with two goals beside a relation with none.
C11_Witness ==
    /\ pc = "relations_done"
    /\ Len(goals) = 2
    /\ \E k \in 1..Len(relations) : Len(relations[k].goals) = 2
    /\ \E k \in 1..Len(relations) : relations[k].goals = << >>
\* ---------------------------------------------------------------------- C12
\* the events of the current meeting in which a notification was attempted
NotifyEvents == {k \in 1..Len(hist) : hist[k].op = "notify" /\ hist[k].res # ""}

CheckEvents(res) == {k \in 1..Len(hist) : hist[k].op = "check" /\ hist[k].res = res}

\* C12: a notification is emitted for a meeting only when its judgment was
\* true, at most once in one processing of the meeting, and only after the
\* COMPLETED write was attempted; a meeting judged not related gets none.
C12_NotifyOnlyRelated ==
    /\ \A k \in NotifyEvents :
          /\ is_related
          /\ \E c \in CheckEvents("True") : c < k
          /\ \E w \in CompletedEvents : w < k
    /\ Cardinality(NotifyEvents) <= 1
    /\ (CheckEvents("False") # {} \/ ~is_related) => NotifyEvents = {}

\* C12 witness: a second meeting was notified after its COMPLETED write failed.
C12_Witness ==
    /\ pc = "for"
    /\ i = 2
    /\ \E k \in NotifyEvents : hist[k].res = "sent"
    /\ \E w \in CompletedEvents : hist[w].res = "error"

\* ---------------------------------------------------------------------- C13
\* C13: the notification step leaves every stored record as it is and never
\* ends the run, whether the notification was emitted or lost; the COMPLETED
\* write of the meeting was made, and committed or rolled back, before it.
C13_NotifyIndependent ==
    [][pc = "notify" =>
          /\ table' = table
          /\ pc' = "for"
          /\ exc' = exc
          /\ CompletedEvents # {}
          /\ \A w \in CompletedEvents :
                hist[w].res = "ok" => HasCompletedRow(meetings[i].transcript_id)']_vars

\* C13 witness: the notification of a meeting was lost and its row is COMPLETED.
C13_Witness ==
    /\ pc = "for"
    /\ i >= 1
    /\ \E k \in NotifyEvents : hist[k].res = "failed"
    /\ \E w \in CompletedEvents : hist[w].res = "ok"
    /\ HasCompletedRow(meetings[i].transcript_id)
\* ---------------------------------------------------------------------- C14
\* C14: with the language-model key missing the run aborts at startup: it
\* never reads the store, asks the meeting source, classifies or writes.
C14_KeyCheckedFirst ==
    KeyMissing(OPENAI_API_KEY) =>
       /\ pc \in {"fetch_goals", "raised"}
       /\ store_read = ""
       /\ requested = {}
       /\ hist = << >>
       /\ (pc = "raised" => exc = ExcKey)

\* ---------------------------------------------------------------------- C15
\* C15: when the read of goals and integrations fails, to connect or in a
\* query, the failure leaves fetch_goals_and_integrations and main() raises
\* it: no meeting is fetched, classified, stored or notified.
C15_StoreReadFailureAborts ==
    store_read \in {"connect_error", "query_error"} =>
       /\ pc = "raised"
       /\ exc \in {ExcConnect, ExcQuery}
       /\ (store_read = "connect_error") = (exc = ExcConnect)
       /\ relations = << >>
       /\ requested = {}
       /\ meetings = << >>
       /\ i = 0
       /\ hist = << >>
       /\ table \in InitTables

\* C15 witness: a query failed and main() raised psycopg2.Error over a store
\* that holds a row.
C15_Witness ==
    /\ store_read = "query_error"
    /\ pc = "raised"
    /\ exc = ExcQuery
    /\ table = {PriorRow}
\* ---------------------------------------------------------------------- C16
\* the status the store_meeting call of statement p writes
StatusAt(p) == IF p = "store_pending" THEN "PENDING" ELSE "COMPLETED"

\* C16 as stated: a row is created as PENDING, and a row that is COMPLETED
\* stays COMPLETED in every step.
C16_Original ==
    [][\A row2 \in table' :
          /\ (RowsOf(row2.transcript_id) = {}) => row2.status = "PENDING"
          /\ \A row \in RowsOf(row2.transcript_id) :
                row.status = "COMPLETED" => row2.status = "COMPLETED"]_vars

\* C16: a status changes only in a committed store_meeting call of main, for
\* the meeting in hand and to the status that call writes: the PENDING write
\* sets the row to PENDING, a row left COMPLETED by an earlier processing of
\* the transcript included, and the COMPLETED write sets it to COMPLETED; no
\* row is deleted.
C16_StatusFollowsWrites ==
    [][/\ \A row \in table : \E row2 \in table' : row2.transcript_id = row.transcript_id
       /\ table' # table =>
             /\ pc \in {"store_pending", "store_completed"}
             /\ hist'[Len(hist')].res = "ok"
             /\ \A row2 \in table' \ table :
                   /\ row2.transcript_id = meetings[i].transcript_id
                   /\ row2.status = StatusAt(pc)
       /\ (pc \in {"store_pending", "store_completed"} /\ hist'[Len(hist')].res = "ok") =>
             \E row2 \in table' :
                /\ row2.transcript_id = meetings[i].transcript_id
                /\ row2.status = StatusAt(pc)]_vars

\* C16 witness: the row an earlier run left COMPLETED is PENDING again.
C16_Witness ==
    /\ pc = "check"
    /\ \E row \in table :
          /\ row.transcript_id = PriorRow.transcript_id
          /\ row.pulse_id = PriorRow.pulse_id
          /\ row.status = "PENDING"
\* ---------------------------------------------------------------------- C17
\* C17: a store_meeting call for a transcript_id that has a row changes, when
\* it commits, the status and summary of that row to the ones it was given and
\* nothing else: title, user_id and pulse_id stay those of the first insert;
\* the rows of the other transcripts are unchanged by any call.
C17_UpdateFrame ==
    [][LET t == st_call'.transcript_id
       IN  /\ \A row \in table :
                IF row.transcript_id = t
                  THEN \E row2 \in table' :
                          /\ row2.transcript_id = t
                          /\ row2.title = row.title
                          /\ row2.user_id = row.user_id
                          /\ row2.pulse_id = row.pulse_id
                          /\ row2.title = st_last'[t].title
                          /\ row2.user_id = st_last'[t].user_id
                          /\ row2.pulse_id = st_last'[t].pulse_id
                          /\ IF st_call'.db = "ok"
                               THEN /\ row2.status = st_call'.status
                                    /\ row2.summary = st_call'.summary
                               ELSE row2 = row
                  ELSE row \in table'
           /\ \A row2 \in table' : row2.transcript_id # t => row2 \in table
           /\ RowsOf(t) # {} => Cardinality(table') = Cardinality(table)]_vars

\* C17 witness: a committed COMPLETED call under one credential updated the
\* row another credential had inserted, which keeps that credential's title,
\* user_id and pulse_id, beside the row of another transcript.
C17_Witness ==
    /\ st_call.db = "ok"
    /\ st_call.status = "COMPLETED"
    /\ \E row \in table :
          /\ row.transcript_id = st_call.transcript_id
          /\ row.pulse_id # st_call.origin
          /\ row.user_id # FirefliesUser(st_call.origin).user_id
          /\ row.title # StoreMeeting(st_call.transcript_id, st_call.origin, "s1").title
          /\ row.status = "COMPLETED"
          /\ row.summary = st_call.summary
    /\ \E row \in table : row.transcript_id # st_call.transcript_id
\* ---------------------------------------------------------------------- C18
PendingRows == {row \in table : row.status = "PENDING"}

\* C18: in a run that starts without PENDING rows and in which no upsert
\* fails, meetings are processed one at a time: the only PENDING row there can
\* be is that of the meeting in hand between its two writes, and none is left
\* when the next meeting starts or the loop ends.
C18_OnePending ==
    /\ Cardinality(PendingRows) <= 1
    /\ \A row \in PendingRows :
          /\ pc \in {"check", "store_completed"}
          /\ row.transcript_id = meetings[i].transcript_id
    /\ pc \in {"check", "store_completed"} => PendingRows # {}

\* C18 witness: the second meeting is PENDING beside the COMPLETED row of the
\* first.
C18_Witness ==
    /\ pc = "check"
    /\ i = 2
    /\ Cardinality(PendingRows) = 1
    /\ \E row \in table :
          /\ row.transcript_id = meetings[1].transcript_id
          /\ row.transcript_id # meetings[2].transcript_id
          /\ row.status = "COMPLETED"
\* ---------------------------------------------------------------------- C19
\* the listed transcripts of relation rr that were never asked for their
\* summary, or whose request raised
Unanswered(rr) == {p \in listed : p[1] = rr /\ p \notin served \cup noSummary}

\* C19: when a request fails partway through the transcripts of a relation,
\* the meetings collected from its earlier transcripts are in the returned
\* list and the transcripts left are not; main's loop goes over the whole
\* returned list, which no later step changes.
C19_PartialRelationKept ==
    /\ [](pc = "init_llm" =>
            \A rr \in failed :
               /\ \A p \in served : p[1] = rr => InMeetings(rr, p[2])
               /\ \A p \in Unanswered(rr) : ~InMeetings(rr, p[2]))
    /\ [](pc \in LoopPcs => i \in 1..Len(meetings))
    /\ [](pc \in {"close", "done"} => i = Len(meetings))
    /\ [][pc \notin {"get_relations", "fetch_meetings"} => meetings' = meetings]_vars

\* C19 witness: a relation failed after its first transcript: that meeting
\* is in the returned list, the transcript left is not.
C19_Witness ==
    /\ pc = "init_llm"
    /\ \E rr \in failed :
          /\ \E p \in served : p[1] = rr /\ InMeetings(rr, p[2])
          /\ \E q \in Unanswered(rr) : ~InMeetings(rr, q[2])
====
